---- MODULE Spec2Model ----
(***************************************************************************)
(* Sharing a Sentinel Hub authentication session.                          *)
(*                                                                         *)
(* The model covers the session mechanism (a session holding a token that  *)
(* is refreshed shortly before expiry), the session cache kept on the      *)
(* download client class (get_session / cache_session / clear_cache), the  *)
(* serialized token that travels between processes, and the session        *)
(* sharing procedure (one thread publishing the token to a shared memory   *)
(* space, workers collecting and caching it).                              *)
(*                                                                         *)
(* Time is counted in seconds.  The auth endpoint is an external           *)
(* collaborator: each call to it is counted in authCalls and its outcome   *)
(* (a token with some expires_in, or an error) is chosen by \E.            *)
(***************************************************************************)
EXTENDS Integers, Sequences, FiniteSets, TLC

\* ------------------------------------------------------------------ bounds
MaxTicks == 4
MaxCallers == 3
MaxAuth == 2
MaxTokenAuth == 3
MaxSessions == 2
MaxTokenSessions == 2
MaxShareAuth == 3
MaxShareTicks == 3
NumWorkers == 2

\* ------------------------------------------------------- program constants
\* refresh_before_expiry=120 "is also the default value"
DefaultRefreshBeforeExpiry == 120

\* ------------------------------------------------------------ value sets
Creds == {"A", "B"}
Universal == "universal"
Identities == Creds \cup {Universal}
FromTokenIds == {"A", Universal}
Ticks == {60, 3420}
ExpiresIns == {60, 180, 3600}
CacheExpiresIns == {180}
ShareExpiresIns == ExpiresIns \ {3600}
RefreshBefores == {0, DefaultRefreshBeforeExpiry}
Errors == {"AuthError", "RateLimitError", "TransportError"}
Outcomes == {"ok"} \cup Errors
NoSession == 0

\* now        the clock, in seconds
\* authCalls  calls made to the auth endpoint
\* sessions   the session objects created so far; a session is named by its
\*            place in the sequence
\* refreshing per session, the session.token calls waiting for the endpoint
\* cache      the session cache of the client class: identity -> session
\* authing    per identity, the get_session calls waiting for the endpoint
\* waiting    per identity, the get_session calls waiting for such a call
\* ret        the latest return of a call
\* cached, cleared   history (see below)
\* chan       the session sharing object: its state, its thread, the scope
\*            that owns it
\* medium     the shared memory space: the serialized token, or nothing
\* workers    per worker process, its own session cache and the error of
\*            its latest run
\* wire       a token on its way through json.dumps and json.loads
VARIABLES now, authCalls, sessions, refreshing, cache, authing, waiting, ret,
          cached, cleared, chan, medium, workers, wire

vars == <<now, authCalls, sessions, refreshing, cache, authing, waiting, ret,
          cached, cleared, chan, medium, workers, wire>>

\* What belongs to the sharing procedure, and to the cache of this process.
shareVars == <<chan, medium, workers, wire>>
cacheVars == <<cache, authing, waiting, cached, cleared>>

\* The number of calls in a per-identity count, and in a per-session count.
Total(f) == f["A"] + f["B"] + f[Universal]

RECURSIVE SumSeq(_)
SumSeq(q) == IF q = << >> THEN 0 ELSE Head(q) + SumSeq(Tail(q))

\* ---------------------------------------------------------------- Token
NoTok == [access_token |-> 0, expires_in |-> 0, expires_at |-> 0]

\* The token an authentication that completes at time `at` yields:
\* expires_at = issuance time + expires_in.
IssueToken(n, ei, at) == [access_token |-> n, expires_in |-> ei, expires_at |-> at + ei]

\* -------------------------------------------------------------- Session
Session(id, tok, thr, refreshable) ==
    [identity |-> id, token |-> tok, refresh_before_expiry |-> thr,
     is_refreshable |-> refreshable]

SessionIds == 1..Len(sessions)

\* A variant that refreshes only after the boundary.
needs_refresh_strict(token, threshold, t) == t > token.expires_at - threshold

\* "If a token would be extracted 120 seconds before expiry or later, the
\* session object would automatically authenticate again."
needs_refresh(token, threshold, t) == t >= token.expires_at - threshold

\* A variant that refreshes the sessions made by from_token as well.
Stale_any(session) ==
    needs_refresh(session.token, session.refresh_before_expiry, now)

\* Whether extracting the token of a session now authenticates again.
Stale(session) ==
    /\ session.is_refreshable
    /\ needs_refresh(session.token, session.refresh_before_expiry, now)

\* A variant that waits for the token to expire.
MustRefresh_expired(s) ==
    sessions[s].is_refreshable /\ now >= sessions[s].token.expires_at

MustRefresh(s) == Stale(sessions[s])

\* A variant of from_token that builds a refreshing session.
SessionFromToken_refreshing(id, tok) ==
    Session(id, tok, DefaultRefreshBeforeExpiry, TRUE)

\* SentinelHubSession.from_token(token): "a session that wouldn't refresh".
SessionFromToken(id, tok) == Session(id, tok, DefaultRefreshBeforeExpiry, FALSE)

\* ------------------------------------------------------------ history
\* cached[id]: the session the latest cache_session call installed under id,
\* if no clear_cache came after it.  cleared[id]: "quiet" or "inflight"
\* while no get_session call was made for id and no session was cached
\* under id since the latest clear_cache, telling whether a get_session
\* authentication for id was in flight when the cache was cleared;
\* "touched" otherwise.  Both record what happened; no operation reads them.

\* ------------------------------------------------------ values returned
\* ret is the latest return of a call: the operation, the number of callers
\* it returned to (a get_session authentication returns to the caller and to
\* every waiter at once), the session the call was about, and the value
\* (flag: the answer of cache_session; for session.token, whether the token
\* was obtained by this call).
RetNone == [op |-> "none", to |-> 0, of |-> NoSession, kind |-> "none",
            sid |-> NoSession, tok |-> NoTok, flag |-> FALSE]
RetSession(o, n, s) == [RetNone EXCEPT !.op = o, !.to = n, !.kind = "session", !.sid = s]
RetToken(s, tok, refreshed) ==
    [RetNone EXCEPT !.op = "token", !.to = 1, !.of = s, !.kind = "token",
                    !.tok = tok, !.flag = refreshed]
RetError(o, n, s, e) == [RetNone EXCEPT !.op = o, !.to = n, !.of = s, !.kind = e]
RetBool(s, b) == [RetNone EXCEPT !.op = "cache_session", !.to = 1, !.of = s,
                                 !.kind = "bool", !.flag = b]

\* ------------------------------------------------------------ callers
\* Calls in progress: the callers are anonymous, at most MaxCallers at a time.
Busy == Total(authing) + Total(waiting)
        + SumSeq(refreshing)

SomeIdle == Busy < MaxCallers

\* Calls to the auth endpoint that have not returned yet.
Outstanding == Total(authing) + SumSeq(refreshing)

\* Calls to the auth endpoint that have returned (authCalls counts them when
\* they are made); the endpoint numbers the access tokens by it.
Returned == authCalls - Outstanding

\* The model holds at most n sessions: there is room for one more.
Room(n) == Len(sessions) + Total(authing) < n

\* ------------------------------------------------------------ the cache
\* A variant that never sees the authentication in flight.
InFlight_never(id) == FALSE

\* An authentication started by get_session for this identity has not
\* completed yet.
InFlight(id) == authing[id] > 0

\* ------------------------------------------------- the token on the wire
\* json.dumps writes a number in decimal digits and json.loads reads the
\* digits back; the serialized token is the text of the fields, by key.
RECURSIVE ToDigits(_)
ToDigits(n) == IF n < 10 THEN <<n>> ELSE Append(ToDigits(n \div 10), n % 10)

RECURSIVE FromDigits(_)
FromDigits(d) ==
    IF d = << >> THEN 0
    ELSE 10 * FromDigits(SubSeq(d, 1, Len(d) - 1)) + d[Len(d)]

Serialize(token) ==
    << [key |-> "access_token", text |-> ToDigits(token.access_token)],
       [key |-> "expires_in", text |-> ToDigits(token.expires_in)],
       [key |-> "expires_at", text |-> ToDigits(token.expires_at)] >>

Field(message, k) ==
    message[CHOOSE i \in 1..Len(message) : message[i].key = k].text

\* A variant that takes expires_at for the lifetime.
Deserialize_no_expiry(message) ==
    [access_token |-> FromDigits(Field(message, "access_token")),
     expires_in |-> FromDigits(Field(message, "expires_in")),
     expires_at |-> FromDigits(Field(message, "expires_in"))]

Deserialize(message) ==
    [access_token |-> FromDigits(Field(message, "access_token")),
     expires_in |-> FromDigits(Field(message, "expires_in")),
     expires_at |-> FromDigits(Field(message, "expires_at"))]

\* Nothing was written to the shared memory space yet.
NoMessage == << >>

\* The tokens sent through json.dumps and json.loads on their own.
WireTokens ==
    [access_token : {0, 1, 9, 10, 907},
     expires_in : {0, 60, 3599, 3600},
     expires_at : {0, 100, 3599, 1653501502}]

WireIdle == [stage |-> "none", token |-> NoTok, text |-> NoMessage, out |-> NoTok,
             session |-> Session("none", NoTok, 0, FALSE)]

\* ------------------------------------------------------ session sharing
\* The sharing object before the "with" statement is entered: no thread.
\* task is the place of the sharing thread in its loop, wake the time its
\* sleep ends (while it waits for the auth endpoint: the time by which a
\* timely call returns), failures the failed authentications in a row, stop whether
\* it was told to stop, tok the token it extracted and written the token it
\* wrote last.
ChanInit == [state |-> "STOPPED", scope |-> "before", task |-> "none",
             stop |-> FALSE, failures |-> 0, wake |-> 0, tok |-> NoTok,
             written |-> NoTok, error |-> "none"]

\* The session the sharing object was given: the one created first.
Shared == 1

\* The shortest sleep of the sharing thread and its pause after a failed
\* authentication: one short step of the clock.
ShortTick == CHOOSE d \in Ticks : \A e \in Ticks : d <= e
MinSleep == ShortTick
Backoff == ShortTick

\* The time within which a timely call to the auth endpoint returns.
CallLimit == ShortTick

\* The cap on failed authentications in a row.
FailureCap == 2

Later(a, b) == IF a >= b THEN a ELSE b

\* The worker processes.  The odd ones run with the credentials of the
\* producer; the even ones have no credentials and cache the session for
\* every configuration (universal=True).
Workers == 1..NumWorkers
WorkerIdentity(w) == IF w % 2 = 1 THEN "A" ELSE Universal

\* No session object.
NoSessionObject == Session("none", NoTok, 0, FALSE)
WorkerInit == [cache |-> [id \in Identities |-> NoSessionObject], error |-> "none"]

\* The key cache_session writes, for a session object.
SessionKey(session, universal) == IF universal THEN Universal ELSE session.identity
CacheKey(s, universal) == SessionKey(sessions[s], universal)

Init ==
    /\ now = 0
    /\ authCalls = 0
    /\ sessions = << >>
    /\ refreshing = << >>
    /\ cache = [id \in Identities |-> NoSession]
    /\ authing = [id \in Identities |-> 0]
    /\ waiting = [id \in Identities |-> 0]
    /\ ret = RetNone
    /\ cached = [id \in Identities |-> NoSession]
    /\ cleared = [id \in Identities |-> "touched"]
    /\ chan = ChanInit
    /\ medium = NoMessage
    /\ workers = [w \in Workers |-> WorkerInit]
    /\ wire = WireIdle

\* A variant of get_session that takes any cached session, whatever the
\* identity it is cached under.
get_session_call_any_entry(id) ==
    /\ SomeIdle
    /\ IF \E j \in Identities : cache[j] # NoSession
       THEN /\ ret' = RetSession("get_session", 1,
                         cache[CHOOSE j \in Identities : cache[j] # NoSession])
            /\ UNCHANGED <<authing, waiting, authCalls>>
       ELSE IF InFlight(id)
       THEN /\ waiting' = [waiting EXCEPT ![id] = @ + 1]
            /\ UNCHANGED <<authing, ret, authCalls>>
       ELSE /\ authCalls < MaxAuth
            /\ Room(MaxSessions)
            /\ authCalls' = authCalls + 1
            /\ authing' = [authing EXCEPT ![id] = @ + 1]
            /\ UNCHANGED <<waiting, ret>>
    /\ cleared' = [cleared EXCEPT ![id] = "touched"]
    /\ UNCHANGED <<now, sessions, refreshing, cache, cached>>
    /\ UNCHANGED shareVars

\* A variant of get_session that does not look in the cache.
get_session_call_no_lookup(id) ==
    /\ SomeIdle
    /\ IF InFlight(id)
       THEN /\ waiting' = [waiting EXCEPT ![id] = @ + 1]
            /\ UNCHANGED <<authing, ret, authCalls>>
       ELSE /\ authCalls < MaxAuth
            /\ Room(MaxSessions)
            /\ authCalls' = authCalls + 1
            /\ authing' = [authing EXCEPT ![id] = @ + 1]
            /\ UNCHANGED <<waiting, ret>>
    /\ cleared' = [cleared EXCEPT ![id] = "touched"]
    /\ UNCHANGED <<now, sessions, refreshing, cache, cached>>
    /\ UNCHANGED shareVars

\* client.get_session(): the cached session of the identity; on a miss one
\* caller authenticates and the callers that arrive meanwhile wait for it.
get_session_call(id) ==
    /\ SomeIdle
    /\ IF cache[id] # NoSession
       THEN /\ ret' = RetSession("get_session", 1, cache[id])
            /\ UNCHANGED <<authing, waiting, authCalls>>
       ELSE IF InFlight(id)
       THEN /\ waiting' = [waiting EXCEPT ![id] = @ + 1]
            /\ UNCHANGED <<authing, ret, authCalls>>
       ELSE /\ authCalls < MaxAuth
            /\ Room(MaxSessions)
            /\ authCalls' = authCalls + 1
            /\ authing' = [authing EXCEPT ![id] = @ + 1]
            /\ UNCHANGED <<waiting, ret>>
    /\ cleared' = [cleared EXCEPT ![id] = "touched"]
    /\ UNCHANGED <<now, sessions, refreshing, cache, cached>>
    /\ UNCHANGED shareVars

\* A variant of the completion that, on an error, calls the auth endpoint
\* again instead of returning.
get_session_return_retries(id, outcome, ei) ==
    /\ authing[id] > 0
    /\ IF outcome = "ok"
       THEN /\ id # Universal
            /\ authing' = [authing EXCEPT ![id] = @ - 1]
            /\ waiting' = [waiting EXCEPT ![id] = 0]
            /\ sessions' = Append(sessions,
                   Session(id, IssueToken(Returned + 1, ei, now),
                           DefaultRefreshBeforeExpiry, TRUE))
            /\ refreshing' = Append(refreshing, 0)
            /\ cache' = IF cache[id] = NoSession
                        THEN [cache EXCEPT ![id] = Len(sessions) + 1] ELSE cache
            /\ ret' = RetSession("get_session", 1 + waiting[id], cache'[id])
            /\ UNCHANGED authCalls
       ELSE /\ authCalls' = authCalls + 1
            /\ UNCHANGED <<authing, waiting, ret, sessions, refreshing, cache>>
    /\ UNCHANGED <<now, cached, cleared>>
    /\ UNCHANGED shareVars

\* The authentication started by get_session completes.  get_session fills
\* an absent entry and never replaces one (entries are replaced by explicit
\* cache_session calls only): the new session is cached unless a
\* cache_session call filled the entry meanwhile, and the session then in
\* the cache is handed to the caller and to every waiter.  An error is
\* handed to them and nothing is cached.  Without credentials (the
\* universal identity) the endpoint cannot succeed.
get_session_return(id, outcome, ei) ==
    /\ authing[id] > 0
    /\ authing' = [authing EXCEPT ![id] = @ - 1]
    /\ waiting' = [waiting EXCEPT ![id] = 0]
    /\ IF outcome = "ok"
       THEN /\ id # Universal
            /\ sessions' = Append(sessions,
                   Session(id, IssueToken(Returned + 1, ei, now),
                           DefaultRefreshBeforeExpiry, TRUE))
            /\ refreshing' = Append(refreshing, 0)
            /\ cache' = IF cache[id] = NoSession
                        THEN [cache EXCEPT ![id] = Len(sessions) + 1] ELSE cache
            /\ ret' = RetSession("get_session", 1 + waiting[id], cache'[id])
       ELSE /\ ret' = RetError("get_session", 1 + waiting[id], NoSession, outcome)
            /\ UNCHANGED <<sessions, refreshing, cache>>
    /\ UNCHANGED <<now, authCalls, cached, cleared>>
    /\ UNCHANGED shareVars

\* SentinelHubSession(config=config, refresh_before_expiry=thr): a session
\* created directly; it authenticates on creation and is not cached.
new_session(id, thr, outcome, ei) ==
    /\ SomeIdle
    /\ authCalls' = authCalls + 1
    /\ IF outcome = "ok"
       THEN /\ sessions' = Append(sessions,
                   Session(id, IssueToken(Returned + 1, ei, now), thr, TRUE))
            /\ refreshing' = Append(refreshing, 0)
            /\ ret' = RetSession("new_session", 1, Len(sessions) + 1)
       ELSE /\ ret' = RetError("new_session", 1, NoSession, outcome)
            /\ UNCHANGED <<sessions, refreshing>>
    /\ UNCHANGED <<now, cache, authing, waiting, cached, cleared>>
    /\ UNCHANGED shareVars

\* session.token: authenticates again when the held token is close to
\* expiry, otherwise hands out the held token.
token_call(s) ==
    /\ SomeIdle
    /\ IF MustRefresh(s)
       THEN /\ authCalls < MaxTokenAuth
            /\ authCalls' = authCalls + 1
            /\ refreshing' = [refreshing EXCEPT ![s] = @ + 1]
            /\ UNCHANGED ret
       ELSE /\ ret' = RetToken(s, sessions[s].token, FALSE)
            /\ UNCHANGED <<refreshing, authCalls>>
    /\ UNCHANGED <<now, sessions, cache, authing, waiting, cached, cleared>>
    /\ UNCHANGED shareVars

\* A variant of the completion that updates the held token in place.
token_return_in_place(s, outcome, ei) ==
    /\ refreshing[s] > 0
    /\ refreshing' = [refreshing EXCEPT ![s] = @ - 1]
    /\ IF outcome = "ok"
       THEN /\ sessions' = [sessions EXCEPT ![s].token.expires_in = ei,
                                            ![s].token.expires_at = now + ei]
            /\ ret' = RetToken(s, sessions'[s].token, TRUE)
       ELSE /\ ret' = RetError("token", 1, s, outcome)
            /\ UNCHANGED sessions
    /\ UNCHANGED <<now, authCalls, cache, authing, waiting, cached, cleared>>
    /\ UNCHANGED shareVars

\* A variant of the completion that returns the new token and keeps the
\* held one.
token_return_keeps(s, outcome, ei) ==
    /\ refreshing[s] > 0
    /\ refreshing' = [refreshing EXCEPT ![s] = @ - 1]
    /\ IF outcome = "ok"
       THEN ret' = RetToken(s, IssueToken(Returned + 1, ei, now), TRUE)
       ELSE ret' = RetError("token", 1, s, outcome)
    /\ UNCHANGED <<now, authCalls, sessions, cache, authing, waiting, cached, cleared>>
    /\ UNCHANGED shareVars

\* The authentication started by session.token completes: the new token
\* replaces the held one; on an error the held token stays.
token_return(s, outcome, ei) ==
    /\ refreshing[s] > 0
    /\ refreshing' = [refreshing EXCEPT ![s] = @ - 1]
    /\ IF outcome = "ok"
       THEN /\ sessions' = [sessions EXCEPT ![s].token = IssueToken(Returned + 1, ei, now)]
            /\ ret' = RetToken(s, IssueToken(Returned + 1, ei, now), TRUE)
       ELSE /\ ret' = RetError("token", 1, s, outcome)
            /\ UNCHANGED sessions
    /\ UNCHANGED <<now, authCalls, cache, authing, waiting, cached, cleared>>
    /\ UNCHANGED shareVars

\* SentinelHubSession.from_token(token): a non-refreshing session around
\* the token the caller was handed.
from_token(id) ==
    /\ SomeIdle
    /\ ret.kind = "token"
    /\ sessions' = Append(sessions, SessionFromToken(id, ret.tok))
    /\ refreshing' = Append(refreshing, 0)
    /\ ret' = RetSession("from_token", 1, Len(sessions) + 1)
    /\ UNCHANGED <<now, authCalls, cache, authing, waiting, cached, cleared>>
    /\ UNCHANGED shareVars

\* A variant of cache_session that keeps an entry that is there.
cache_session_first_wins(s, universal) ==
    /\ SomeIdle
    /\ cache' = IF cache[CacheKey(s, universal)] = NoSession
                THEN [cache EXCEPT ![CacheKey(s, universal)] = s] ELSE cache
    /\ ret' = RetBool(s, cache[CacheKey(s, universal)] # NoSession)
    /\ cached' = [cached EXCEPT ![CacheKey(s, universal)] = s]
    /\ cleared' = [cleared EXCEPT ![CacheKey(s, universal)] = "touched"]
    /\ UNCHANGED <<now, authCalls, sessions, refreshing, authing, waiting>>
    /\ UNCHANGED shareVars

\* A variant of cache_session that, for every configuration, writes the
\* entry of the session's identity as well.
cache_session_writes_both(s, universal) ==
    /\ SomeIdle
    /\ cache' = [cache EXCEPT ![CacheKey(s, universal)] = s,
                              ![sessions[s].identity] = s]
    /\ ret' = RetBool(s, cache[CacheKey(s, universal)] # NoSession)
    /\ cached' = [cached EXCEPT ![CacheKey(s, universal)] = s]
    /\ cleared' = [cleared EXCEPT ![CacheKey(s, universal)] = "touched"]
    /\ UNCHANGED <<now, authCalls, sessions, refreshing, authing, waiting>>
    /\ UNCHANGED shareVars

\* A variant of cache_session that answers for the identity of the session
\* whatever the key.
cache_session_answers_own(s, universal) ==
    /\ SomeIdle
    /\ cache' = [cache EXCEPT ![CacheKey(s, universal)] = s]
    /\ ret' = RetBool(s, cache[sessions[s].identity] # NoSession)
    /\ cached' = [cached EXCEPT ![CacheKey(s, universal)] = s]
    /\ cleared' = [cleared EXCEPT ![CacheKey(s, universal)] = "touched"]
    /\ UNCHANGED <<now, authCalls, sessions, refreshing, authing, waiting>>
    /\ UNCHANGED shareVars

\* client.cache_session(session, universal): installs the session under
\* its key and tells whether an entry was replaced.
cache_session(s, universal) ==
    /\ SomeIdle
    /\ cache' = [cache EXCEPT ![CacheKey(s, universal)] = s]
    /\ ret' = RetBool(s, cache[CacheKey(s, universal)] # NoSession)
    /\ cached' = [cached EXCEPT ![CacheKey(s, universal)] = s]
    /\ cleared' = [cleared EXCEPT ![CacheKey(s, universal)] = "touched"]
    /\ UNCHANGED <<now, authCalls, sessions, refreshing, authing, waiting>>
    /\ UNCHANGED shareVars

\* A variant of clear_cache that drops the universal entry only.
clear_cache_universal_only ==
    /\ SomeIdle
    /\ cache' = [cache EXCEPT ![Universal] = NoSession]
    /\ ret' = [RetNone EXCEPT !.op = "clear_cache", !.to = 1]
    /\ cached' = [id \in Identities |-> NoSession]
    /\ cleared' = [id \in Identities |-> IF authing[id] > 0 THEN "inflight" ELSE "quiet"]
    /\ UNCHANGED <<now, authCalls, sessions, refreshing, authing, waiting>>
    /\ UNCHANGED shareVars

\* SentinelHubDownloadClient.clear_cache()
clear_cache ==
    /\ SomeIdle
    /\ cache' = [id \in Identities |-> NoSession]
    /\ ret' = [RetNone EXCEPT !.op = "clear_cache", !.to = 1]
    /\ cached' = [id \in Identities |-> NoSession]
    /\ cleared' = [id \in Identities |-> IF authing[id] > 0 THEN "inflight" ELSE "quiet"]
    /\ UNCHANGED <<now, authCalls, sessions, refreshing, authing, waiting>>
    /\ UNCHANGED shareVars

\* The clock steps taken so far (a long step is 57 short ones).
TicksTaken == (now \div 3420) + ((now % 3420) \div 60)

\* Time passes.
Tick(d) ==
    /\ TicksTaken < MaxTicks
    /\ now' = now + d
    /\ UNCHANGED <<authCalls, sessions, refreshing, cache, authing, waiting, ret,
                   cached, cleared>>
    /\ UNCHANGED shareVars

\* ---------------------------------------------------- session sharing
\* "with SessionSharing(session):" is entered: "for the duration of 'with'
\* statement this will run a thread that will share the given session".
sharing_enter ==
    /\ chan.scope = "before"
    /\ Len(sessions) >= Shared
    /\ chan' = [chan EXCEPT !.state = "RUNNING", !.scope = "inside", !.task = "extract"]
    /\ UNCHANGED <<now, authCalls, sessions, refreshing, ret, medium, workers, wire>>
    /\ UNCHANGED cacheVars

\* A variant of the stop that an exception passes by.
sharing_exit_unless_raised(how) ==
    /\ chan.scope = "inside"
    /\ chan' = [chan EXCEPT !.scope = how, !.stop = (how # "raised")]
    /\ UNCHANGED <<now, authCalls, sessions, refreshing, ret, medium, workers,
                   wire>>
    /\ UNCHANGED cacheVars

\* The sharing is stopped: by an explicit stop ("stopped"), or because the
\* "with" statement is left, normally ("exited") or by an exception
\* ("raised").  The thread is told to stop.
sharing_exit(how) ==
    /\ chan.scope = "inside"
    /\ chan' = [chan EXCEPT !.scope = how, !.stop = TRUE]
    /\ UNCHANGED <<now, authCalls, sessions, refreshing, ret, medium, workers, wire>>
    /\ UNCHANGED cacheVars

\* The sharing thread extracts the token of the session (session.token):
\* the held token, or a call to the auth endpoint when it is close to expiry.
task_extract ==
    /\ chan.task = "extract"
    /\ ~chan.stop
    /\ IF MustRefresh(Shared)
       THEN /\ authCalls < MaxShareAuth
            /\ authCalls' = authCalls + 1
            /\ refreshing' = [refreshing EXCEPT ![Shared] = @ + 1]
            /\ chan' = [chan EXCEPT !.task = "auth", !.wake = now + CallLimit]
       ELSE /\ chan' = [chan EXCEPT !.task = "publish", !.tok = sessions[Shared].token]
            /\ UNCHANGED <<authCalls, refreshing>>
    /\ UNCHANGED <<now, sessions, ret, medium, workers, wire>>
    /\ UNCHANGED cacheVars

\* The call of the sharing thread to the auth endpoint returns.  A new
\* token is installed in the session and goes on to be published.  A failure
\* is counted: the thread pauses and tries again, and at the cap of failures
\* in a row the sharing ends with StaleChannelError.
task_return(outcome, ei) ==
    /\ chan.task = "auth"
    /\ refreshing' = [refreshing EXCEPT ![Shared] = @ - 1]
    /\ IF outcome = "ok"
       THEN /\ sessions' = [sessions EXCEPT ![Shared].token = IssueToken(Returned + 1, ei, now)]
            /\ chan' = [chan EXCEPT !.task = "publish",
                                    !.tok = IssueToken(Returned + 1, ei, now)]
       ELSE /\ chan' = IF chan.failures + 1 >= FailureCap
                       THEN [chan EXCEPT !.task = "none", !.state = "STOPPED",
                                         !.failures = @ + 1,
                                         !.error = "StaleChannelError"]
                       ELSE [chan EXCEPT !.task = "backoff", !.failures = @ + 1,
                                         !.wake = now + Backoff]
            /\ UNCHANGED sessions
    /\ UNCHANGED <<now, authCalls, ret, medium, workers, wire>>
    /\ UNCHANGED cacheVars

\* A variant of the write that overwrites a message field by field and is
\* read before the last field is written.
task_publish_in_parts ==
    /\ chan.task = "publish"
    /\ medium' = IF medium = NoMessage
                 THEN Serialize(chan.tok)
                 ELSE Serialize([chan.tok EXCEPT
                                    !.expires_at = Deserialize(medium).expires_at])
    /\ chan' = [chan EXCEPT !.task = "sleep", !.failures = 0, !.written = chan.tok,
                  !.wake = Later(now + MinSleep,
                                 chan.tok.expires_at
                                     - sessions[Shared].refresh_before_expiry)]
    /\ UNCHANGED <<now, authCalls, sessions, refreshing, ret, workers, wire>>
    /\ UNCHANGED cacheVars

\* A variant of the write that keeps the count of failures.
task_publish_keeps_count ==
    /\ chan.task = "publish"
    /\ medium' = Serialize(chan.tok)
    /\ chan' = [chan EXCEPT !.task = "sleep", !.written = chan.tok,
                  !.wake = Later(now + MinSleep,
                                 chan.tok.expires_at
                                     - sessions[Shared].refresh_before_expiry)]
    /\ UNCHANGED <<now, authCalls, sessions, refreshing, ret, workers, wire>>
    /\ UNCHANGED cacheVars

\* A variant of the write that sleeps until the token expires.
task_publish_sleeps_to_expiry ==
    /\ chan.task = "publish"
    /\ medium' = Serialize(chan.tok)
    /\ chan' = [chan EXCEPT !.task = "sleep", !.failures = 0, !.written = chan.tok,
                  !.wake = Later(now + MinSleep, chan.tok.expires_at)]
    /\ UNCHANGED <<now, authCalls, sessions, refreshing, ret, workers, wire>>
    /\ UNCHANGED cacheVars

\* The sharing thread writes the serialized token to the shared memory
\* space, in one piece, and goes to sleep until the token is close to expiry.
task_publish ==
    /\ chan.task = "publish"
    /\ medium' = Serialize(chan.tok)
    /\ chan' = [chan EXCEPT !.task = "sleep", !.failures = 0, !.written = chan.tok,
                  !.wake = Later(now + MinSleep,
                                 chan.tok.expires_at
                                     - sessions[Shared].refresh_before_expiry)]
    /\ UNCHANGED <<now, authCalls, sessions, refreshing, ret, workers, wire>>
    /\ UNCHANGED cacheVars

\* The sleep or the pause of the sharing thread is over.
task_wake ==
    /\ chan.task \in {"sleep", "backoff"}
    /\ ~chan.stop
    /\ now >= chan.wake
    /\ chan' = [chan EXCEPT !.task = "extract"]
    /\ UNCHANGED <<now, authCalls, sessions, refreshing, ret, medium, workers, wire>>
    /\ UNCHANGED cacheVars

\* A variant of the end of the thread that removes what was written.
task_cancel_removes ==
    /\ chan.stop
    /\ chan.task \in {"extract", "sleep", "backoff"}
    /\ chan' = [chan EXCEPT !.task = "none", !.state = "STOPPED"]
    /\ medium' = NoMessage
    /\ UNCHANGED <<now, authCalls, sessions, refreshing, ret, workers, wire>>
    /\ UNCHANGED cacheVars

\* The sharing thread, told to stop, ends: at once when asleep or about to
\* extract the token; a write under way is completed first.
task_cancel ==
    /\ chan.stop
    /\ chan.task \in {"extract", "sleep", "backoff"}
    /\ chan' = [chan EXCEPT !.task = "none", !.state = "STOPPED"]
    /\ UNCHANGED <<now, authCalls, sessions, refreshing, ret, medium, workers, wire>>
    /\ UNCHANGED cacheVars

TaskStep ==
    \/ task_extract
    \/ \E o \in Outcomes, ei \in ShareExpiresIns : task_return(o, ei)
    \/ task_publish
    \/ task_wake
    \/ task_cancel

\* A variant of remote_function whose read waits for the first write.
remote_function_waits(w) ==
    /\ medium # NoMessage
    /\ LET session == SessionFromToken(WorkerIdentity(w), Deserialize(medium))
           key == SessionKey(session, WorkerIdentity(w) = Universal)
           filled == [workers[w].cache EXCEPT ![key] = session]
       IN  workers' = [workers EXCEPT ![w] = [cache |-> filled, error |-> "none"]]
    /\ UNCHANGED <<now, authCalls, sessions, refreshing, ret, chan, medium, wire>>
    /\ UNCHANGED cacheVars

\* remote_function in a worker process: collect_shared_session() reads the
\* shared memory space (NotFoundError when nothing was written) and builds a
\* session from the token; cache_session(session) puts it in the cache of
\* the worker; the request that follows takes the session from that cache
\* and extracts its token.
remote_function(w) ==
    /\ IF medium = NoMessage
       THEN /\ workers' = [workers EXCEPT ![w].error = "NotFoundError"]
            /\ UNCHANGED authCalls
       ELSE \E session \in {SessionFromToken(WorkerIdentity(w), Deserialize(medium))} :
            LET key == SessionKey(session, WorkerIdentity(w) = Universal)
                filled == [workers[w].cache EXCEPT ![key] = session]
                found == filled[WorkerIdentity(w)]
            IN  /\ workers' = [workers EXCEPT ![w] = [cache |-> filled, error |-> "none"]]
                /\ IF found = NoSessionObject \/ Stale(found)
                   THEN authCalls' = authCalls + 1
                   ELSE UNCHANGED authCalls
    /\ UNCHANGED <<now, sessions, refreshing, ret, chan, medium, wire>>
    /\ UNCHANGED cacheVars

\* json.dumps(session.token)
wire_dumps ==
    /\ wire.stage = "token"
    /\ wire' = [wire EXCEPT !.stage = "text", !.text = Serialize(wire.token)]
    /\ UNCHANGED <<now, authCalls, sessions, refreshing, ret, chan, medium,
                   workers>>
    /\ UNCHANGED cacheVars

\* json.loads(serialized_token)
wire_loads ==
    /\ wire.stage = "text"
    /\ wire' = [wire EXCEPT !.stage = "loaded", !.out = Deserialize(wire.text)]
    /\ UNCHANGED <<now, authCalls, sessions, refreshing, ret, chan, medium,
                   workers>>
    /\ UNCHANGED cacheVars

\* SentinelHubSession.from_token(token), on the token that was read back.
wire_from_token ==
    /\ wire.stage = "loaded"
    /\ wire' = [wire EXCEPT !.stage = "session",
                            !.session = SessionFromToken(Universal, wire.out)]
    /\ UNCHANGED <<now, authCalls, sessions, refreshing, ret, chan, medium,
                   workers>>
    /\ UNCHANGED cacheVars

\* The cache operations read neither the clock nor the tokens, and the token
\* operations do not read the cache: the process is checked in two parts.
\* Spec is the session cache under concurrent callers, at a fixed time and
\* with one expires_in; SpecToken is the token lifecycle as time passes, of
\* one session created from credentials and of the non-refreshing sessions
\* made from its tokens (sessions share nothing but the endpoint).
Next ==
    \/ \E id \in Identities : get_session_call(id)
    \/ \E id \in Identities, o \in Outcomes, ei \in CacheExpiresIns :
          get_session_return(id, o, ei)
    \/ \E id \in Creds, o \in Outcomes, ei \in CacheExpiresIns :
          authCalls < MaxAuth /\ Room(MaxSessions)
          /\ new_session(id, DefaultRefreshBeforeExpiry, o, ei)
    \/ \E s \in SessionIds : token_call(s)
    \/ \E id \in FromTokenIds : Room(MaxSessions) /\ from_token(id)
    \/ \E s \in SessionIds, u \in BOOLEAN : cache_session(s, u)
    \/ clear_cache

Spec == Init /\ [][Next]_vars

NextToken ==
    \/ \E thr \in RefreshBefores, o \in Outcomes, ei \in ExpiresIns :
          authCalls < MaxTokenAuth /\ sessions = << >> /\ new_session("A", thr, o, ei)
    \/ \E s \in SessionIds : token_call(s)
    \/ \E s \in SessionIds, o \in Outcomes, ei \in ExpiresIns : token_return(s, o, ei)
    \/ Room(MaxTokenSessions) /\ from_token(Universal)
    \/ \E d \in Ticks : Tick(d)

SpecToken == Init /\ [][NextToken]_vars

\* The sharing procedure: one session, the sharing thread, the shared memory
\* space and the worker processes, as time passes.  The sharing thread keeps
\* running while it can, and a call to the auth endpoint returns.
NextSharing ==
    \/ \E thr \in RefreshBefores, o \in Outcomes, ei \in ShareExpiresIns :
          authCalls < MaxShareAuth /\ sessions = << >> /\ new_session("A", thr, o, ei)
    \/ sharing_enter
    \/ \E how \in {"stopped", "exited", "raised"} : sharing_exit(how)
    \/ task_extract
    \/ \E o \in Outcomes, ei \in ShareExpiresIns : task_return(o, ei)
    \/ task_publish
    \/ task_wake
    \/ task_cancel
    \/ \E w \in Workers : remote_function(w)
    \/ TicksTaken < MaxShareTicks /\ Tick(ShortTick)

SpecSharing == Init /\ [][NextSharing]_vars /\ WF_vars(TaskStep)

\* The sharing procedure when the sharing thread is on time: its sleep ends
\* when due, extracting and writing take no time, and a call to the auth
\* endpoint returns within CallLimit.  Once told to stop, or stopped, the
\* thread holds the clock no more.
OnTime(d) ==
    (chan.state = "RUNNING" /\ ~chan.stop) =>
        CASE chan.task \in {"extract", "publish"} -> FALSE
          [] chan.task \in {"sleep", "backoff", "auth"} -> now + d <= chan.wake
          [] OTHER -> TRUE

NextTimely == NextSharing /\ (now' # now => OnTime(now' - now))

SpecTimely == Init /\ [][NextTimely]_vars

\* The two operations that call the auth endpoint on behalf of a caller,
\* together: get_session on the cache, and session.token on the sessions it
\* made, as time passes and with any outcome of each call.
NextFailure ==
    \/ \E id \in Identities : get_session_call(id)
    \/ \E id \in Identities, o \in Outcomes, ei \in ShareExpiresIns :
          get_session_return(id, o, ei)
    \/ \E s \in SessionIds : token_call(s)
    \/ \E s \in SessionIds, o \in Outcomes, ei \in ShareExpiresIns :
          token_return(s, o, ei)
    \/ TicksTaken < MaxShareTicks /\ Tick(ShortTick)

SpecFailure == Init /\ [][NextFailure]_vars

\* A token through json.dumps and json.loads.
InitWire ==
    /\ now = 0
    /\ authCalls = 0
    /\ sessions = << >>
    /\ refreshing = << >>
    /\ cache = [id \in Identities |-> NoSession]
    /\ authing = [id \in Identities |-> 0]
    /\ waiting = [id \in Identities |-> 0]
    /\ ret = RetNone
    /\ cached = [id \in Identities |-> NoSession]
    /\ cleared = [id \in Identities |-> "touched"]
    /\ chan = ChanInit
    /\ medium = NoMessage
    /\ workers = [w \in Workers |-> WorkerInit]
    /\ \E t \in WireTokens : wire = [WireIdle EXCEPT !.stage = "token", !.token = t]

NextWire == wire_dumps \/ wire_loads \/ wire_from_token

SpecWire == InitWire /\ [][NextWire]_vars

\* ================================================================ claims
\* ---------------------------------------------------------------- Spec

\* C1. Single-flight: among the get_session calls for one identity that
\* find no cached session, at most one is authenticating at any time and
\* the others wait for it; a call that arrives while the authentication is
\* in flight makes no call to the auth endpoint; when the authentication
\* completes (without a further call) the caller and every waiter are
\* handed one and the same result, which for a success is the session
\* then in the cache.
C1_SingleFlight ==
    /\ [](\A id \in Identities :
            authing[id] <= 1 /\ (waiting[id] > 0 => authing[id] = 1))
    /\ [][\A id \in Identities :
            /\ waiting'[id] > waiting[id] => authCalls' = authCalls
            /\ authing'[id] < authing[id] =>
                  /\ waiting'[id] = 0
                  /\ authCalls' = authCalls
                  /\ ret'.op = "get_session"
                  /\ ret'.to = 1 + waiting[id]
                  /\ ret'.kind = "session" =>
                        ret'.sid # NoSession /\ ret'.sid = cache'[id]]_vars

\* Three concurrent get_session calls were served one session by the first
\* and only call to the auth endpoint.
C1_Witness ==
    /\ authCalls = 1
    /\ ret.op = "get_session" /\ ret.kind = "session" /\ ret.to = 3
    /\ \E id \in Creds : cache[id] = ret.sid

C7_CachedSessionReturned ==
    /\ [](\A id \in Identities : cached[id] # NoSession => cache[id] = cached[id])
    /\ [][\A id \in Identities :
            (cache[id] # NoSession /\ get_session_call(id)) =>
                /\ ret'.op = "get_session" /\ ret'.kind = "session" /\ ret'.to = 1
                /\ ret'.sid = cache[id]
                /\ cached[id] # NoSession => ret'.sid = cached[id]
                /\ authCalls' = authCalls
                /\ sessions' = sessions
                /\ authing' = authing /\ waiting' = waiting
                /\ cache' = cache]_vars

\* get_session returned the session that cache_session installed, here a
\* session that was not created by get_session itself.
C7_Witness ==
    \E id \in Identities :
        /\ cached[id] # NoSession
        /\ ret.op = "get_session" /\ ret.kind = "session" /\ ret.sid = cached[id]
        /\ authCalls = 1

C15_CacheWritesOneKey ==
    /\ [][\A s \in SessionIds, u \in BOOLEAN :
            cache_session(s, u) =>
                /\ \A id \in Identities :
                      cache'[id] = IF id = (IF u THEN Universal ELSE sessions[s].identity)
                                   THEN s ELSE cache[id]
                /\ authCalls' = authCalls /\ sessions' = sessions
                /\ authing' = authing /\ waiting' = waiting]_vars
    /\ [][(cached[Universal] # NoSession /\ get_session_call(Universal)) =>
             /\ ret'.op = "get_session" /\ ret'.kind = "session"
             /\ ret'.sid = cached[Universal]
             /\ authCalls' = authCalls /\ cache' = cache]_vars
    /\ [][(cached[Universal] # NoSession /\ cached'[Universal] # cached[Universal]) =>
             \/ \E s \in SessionIds : cache_session(s, TRUE) \/ cache_session(s, FALSE)
             \/ clear_cache]_vars

\* A session of identity A was cached for every configuration while the
\* cache holds another session under A, and a get_session call without
\* credentials returned the former.
C15_Witness ==
    \E s \in SessionIds :
        /\ cached[Universal] = s /\ cache[Universal] = s
        /\ sessions[s].identity = "A"
        /\ cache["A"] # NoSession /\ cache["A"] # s
        /\ ret.op = "get_session" /\ ret.kind = "session" /\ ret.sid = s
        /\ authing[Universal] = 0

\* C16. cache_session calls on one key are last-write-win.  Whatever the
\* interleaving of cache_session calls, and of cache_session calls with a
\* get_session authentication in flight for the identity, the cache holds
\* under the key one session, the one the most recent cache_session call
\* installed (cached), whole: an entry is a session object, and no cache
\* operation changes a session object.  An authentication in flight that
\* completes after the call does not replace the entry, and hands out the
\* session that was cached.
C16_LastWriteWins ==
    /\ [](\A id \in Identities :
            /\ cache[id] \in SessionIds \cup {NoSession}
            /\ cached[id] # NoSession => cache[id] = cached[id])
    /\ [][\A s \in SessionIds, u \in BOOLEAN :
            cache_session(s, u) =>
                /\ cache'[IF u THEN Universal ELSE sessions[s].identity] = s
                /\ cached'[IF u THEN Universal ELSE sessions[s].identity] = s
                /\ \A t \in SessionIds : sessions'[t] = sessions[t]]_vars
    /\ [][\A id \in Identities :
            (authing'[id] < authing[id] /\ cached[id] # NoSession) =>
                /\ cache'[id] = cached[id]
                /\ ret'.kind = "session" => ret'.sid = cached[id]]_vars

\* A get_session call for A was authenticating, with one caller waiting,
\* when a session was cached under A; the authentication has completed, the
\* cache still holds the session that was cached, both callers were handed
\* it, and the session the authentication made is in no entry.
C16_Witness ==
    \E s, made \in SessionIds :
        /\ cached["A"] = s /\ cache["A"] = s
        /\ made = Len(sessions) /\ made # s
        /\ sessions[made].identity = "A" /\ sessions[made].is_refreshable
        /\ \A id \in Identities : cache[id] # made
        /\ ret.op = "get_session" /\ ret.kind = "session"
        /\ ret.to = 2 /\ ret.sid = s

\* C17. Single-flight is per identity.  A get_session call for an identity
\* that has no cached session and no authentication in flight makes its own
\* call to the auth endpoint, whatever is cached or in flight for the other
\* identities; a call never waits for the authentication of another
\* identity; the session cached under credentials, and the session a
\* get_session call with credentials returns, is a session of that very
\* identity.  So with other credentials a new session is created.
C17_SingleFlightPerIdentity ==
    /\ [](\A id \in Creds :
            cache[id] # NoSession => sessions[cache[id]].identity = id)
    /\ [][\A id \in Creds :
            /\ (get_session_call(id) /\ cache[id] = NoSession /\ authing[id] = 0) =>
                  /\ authCalls' = authCalls + 1
                  /\ authing' = [authing EXCEPT ![id] = 1]
                  /\ waiting' = waiting
            /\ waiting'[id] > waiting[id] => authing[id] = 1
            /\ (get_session_call(id) /\ cache[id] # NoSession) =>
                  sessions[ret'.sid].identity = id
            /\ (authing'[id] < authing[id] /\ ret'.kind = "session") =>
                  sessions'[ret'.sid].identity = id]_vars

\* The get_session authentications for A and for B are in flight at the
\* same time, each by its own call to the auth endpoint.
C17_Witness ==
    /\ authing["A"] = 1 /\ authing["B"] = 1
    /\ authCalls = 2
    /\ sessions = << >>
    /\ cache["A"] = NoSession /\ cache["B"] = NoSession

\* ------------------------------------------------------------ SpecToken
Thresholds == RefreshBefores \cup {60, 300}

\* C2. For every token held by a session, every threshold and the current
\* time, needs_refresh is true exactly when now + threshold >= expires_at.
C2_NeedsRefreshRule ==
    \A s \in SessionIds, thr \in Thresholds :
        needs_refresh(sessions[s].token, thr, now)
            <=> (now + thr >= sessions[s].token.expires_at)

\* A token extraction at the boundary now + threshold = expires_at (the
\* first instant of need, as expires_in > threshold) has started a refresh.
C2_Witness ==
    \E s \in SessionIds :
        /\ sessions[s].is_refreshable
        /\ sessions[s].token.expires_in > sessions[s].refresh_before_expiry
        /\ now + sessions[s].refresh_before_expiry = sessions[s].token.expires_at
        /\ refreshing[s] > 0

\* C3. A session.token call on a refreshable session makes exactly one call
\* to the auth endpoint when now + refresh_before_expiry >= expires_at of
\* the held token, and the token that call yields is installed and
\* returned, a new token with expires_at = its issuance time + expires_in;
\* otherwise the call makes no call to the endpoint and returns the held
\* token, which stays.
C3_RefreshExactlyOnce ==
    [][\A s \in SessionIds :
         /\ (sessions[s].is_refreshable /\ token_call(s)) =>
               IF now + sessions[s].refresh_before_expiry >= sessions[s].token.expires_at
               THEN /\ authCalls' = authCalls + 1
                    /\ refreshing'[s] = refreshing[s] + 1
                    /\ sessions' = sessions /\ ret' = ret
               ELSE /\ authCalls' = authCalls
                    /\ refreshing' = refreshing
                    /\ sessions' = sessions
                    /\ ret'.kind = "token" /\ ret'.of = s /\ ret'.tok = sessions[s].token
         /\ refreshing'[s] < refreshing[s] =>
               /\ authCalls' = authCalls
               /\ refreshing'[s] = refreshing[s] - 1
               /\ ret'.op = "token" /\ ret'.of = s
               /\ ret'.kind = "token" =>
                     /\ sessions'[s].token = ret'.tok
                     /\ ret'.tok.access_token # sessions[s].token.access_token
                     /\ ret'.tok.expires_at = now + ret'.tok.expires_in
               /\ ret'.kind # "token" => sessions' = sessions]_vars

\* The scenario: refresh_before_expiry = 120 and a token issued at time 0
\* with expires_in = 3600; the only call after creation is the one a
\* session.token call made at expires_at - 60 = 3540, and it installed a
\* token with a new expires_at.
C3_Witness ==
    \E s \in SessionIds :
        /\ sessions[s].is_refreshable
        /\ sessions[s].refresh_before_expiry = 120
        /\ now = 3540
        /\ authCalls = 2
        /\ ret.op = "token" /\ ret.kind = "token" /\ ret.of = s /\ ret.flag
        /\ sessions[s].token = ret.tok
        /\ ret.tok.access_token = 2
        /\ ret.tok.expires_at = 3540 + 3600

\* C4 as claimed: whenever session.token returns a token on a refreshable
\* session, the token the session holds satisfies
\* now + refresh_before_expiry < expires_at.
C4_FreshAfterGetToken ==
    [][\A s \in SessionIds :
         (sessions[s].is_refreshable /\ ret' # ret
              /\ ret'.op = "token" /\ ret'.kind = "token" /\ ret'.of = s) =>
             now' + sessions'[s].refresh_before_expiry < sessions'[s].token.expires_at]_vars

\* C4 as amended: the same, for the tokens whose expires_in exceeds the
\* refresh_before_expiry of the session.
C4_FreshWhenLongLived ==
    [][\A s \in SessionIds :
         (sessions[s].is_refreshable /\ ret' # ret
              /\ ret'.op = "token" /\ ret'.kind = "token" /\ ret'.of = s
              /\ sessions'[s].token.expires_in > sessions'[s].refresh_before_expiry) =>
             now' + sessions'[s].refresh_before_expiry < sessions'[s].token.expires_at]_vars

\* A refresh has completed on a session whose threshold is 120 with a token
\* of expires_in 180, and the session holds it.
C4_Witness ==
    \E s \in SessionIds :
        /\ sessions[s].is_refreshable
        /\ sessions[s].refresh_before_expiry = 120
        /\ ret.op = "token" /\ ret.kind = "token" /\ ret.of = s /\ ret.flag
        /\ ret.tok.access_token >= 2
        /\ ret.tok.expires_in = 180
        /\ sessions[s].token = ret.tok
        /\ now + 120 < ret.tok.expires_at

\* C5. A session built by from_token is never refreshed: no step changes
\* it, no session.token call on it reaches the auth endpoint, and every
\* session.token call on it returns the token it holds, without an error,
\* also after expires_at.
C5_FromTokenNeverRefreshed ==
    [][\A s \in SessionIds :
         ~sessions[s].is_refreshable =>
             /\ sessions'[s] = sessions[s]
             /\ refreshing'[s] = 0
             /\ token_call(s) =>
                   /\ authCalls' = authCalls
                   /\ ret'.op = "token" /\ ret'.kind = "token" /\ ret'.of = s
                   /\ ret'.tok = sessions[s].token]_vars

\* session.token on a from_token session has returned its token after the
\* token expired, and a refreshable session holding the same token would
\* have had to refresh.
C5_Witness ==
    \E s \in SessionIds :
        /\ ~sessions[s].is_refreshable
        /\ ret.op = "token" /\ ret.kind = "token" /\ ret.of = s
        /\ ret.tok = sessions[s].token
        /\ now > ret.tok.expires_at

\* C18. The token of a session is replaced whole.  Whatever the
\* interleaving of session.token calls with refreshes, a call returns the
\* whole token the session held before the step or the whole token it holds
\* after it; a change of the held token is a new token (another
\* access_token) installed by a completing refresh, never an update of
\* fields; and a token that was handed out keeps its fields: whoever holds
\* a token of some access_token (the latest return, a session made from it
\* by from_token) holds the same fields as everyone else.
C18_TokenReplacedWhole ==
    /\ [](/\ \A s, t \in SessionIds :
                sessions[s].token.access_token = sessions[t].token.access_token
                    => sessions[s].token = sessions[t].token
          /\ \A s \in SessionIds :
                (ret.kind = "token"
                    /\ sessions[s].token.access_token = ret.tok.access_token)
                    => sessions[s].token = ret.tok)
    /\ [][\A s \in SessionIds :
            /\ (ret' # ret /\ ret'.op = "token" /\ ret'.kind = "token" /\ ret'.of = s) =>
                  ret'.tok = sessions[s].token \/ ret'.tok = sessions'[s].token
            /\ sessions'[s].token # sessions[s].token =>
                  /\ sessions'[s].token.access_token # sessions[s].token.access_token
                  /\ refreshing'[s] < refreshing[s]
                  /\ ret'.tok = sessions'[s].token]_vars

\* Two session.token calls on one session each called the auth endpoint;
\* the first to return has installed its token, which needs no refresh,
\* while the other is still waiting for the endpoint.
C18_Witness ==
    \E s \in SessionIds :
        /\ sessions[s].is_refreshable
        /\ sessions[s].refresh_before_expiry = 120
        /\ refreshing[s] = 1
        /\ authCalls = 3
        /\ ret.op = "token" /\ ret.kind = "token" /\ ret.of = s /\ ret.flag
        /\ ret.tok = sessions[s].token
        /\ ret.tok.expires_at = now + 3600

\* ------------------------------------------------------------- SpecWire

SharingOver == chan.scope \in {"stopped", "exited", "raised"}

\* C9. The workers never authenticate.  No run of remote_function makes a
\* call to the auth endpoint, whatever the number of workers and however
\* old the token; a run that finds a token in the shared memory space
\* leaves, in the cache of the worker and under the key its requests look
\* up, a non-refreshing session holding the token the sharing thread wrote
\* last, so the workers that read one message hold one access_token.  What
\* is in the shared memory space is the serialized form of that token, a
\* token of the shared session; no worker ever holds a refreshing session;
\* and a step that makes a call to the auth endpoint is no step of a worker.
C9_WorkersNeverAuthenticate ==
    /\ [](/\ medium # NoMessage =>
               medium = Serialize(chan.written) /\ Deserialize(medium) = chan.written
          /\ chan.task = "sleep" => chan.written = sessions[Shared].token
          /\ \A w \in Workers, id \in Identities : ~workers[w].cache[id].is_refreshable)
    /\ [][/\ \A w \in Workers :
                remote_function(w) =>
                    /\ authCalls' = authCalls
                    /\ medium # NoMessage =>
                          /\ workers'[w].cache[WorkerIdentity(w)] # NoSessionObject
                          /\ ~workers'[w].cache[WorkerIdentity(w)].is_refreshable
                          /\ workers'[w].cache[WorkerIdentity(w)].token = chan.written
          /\ authCalls' # authCalls => workers' = workers]_vars

\* Every worker holds, in its cache, a session with the token of the shared
\* session, one with the credentials and one without, after the token they
\* hold has expired, and the only call to the auth endpoint so far is the one
\* that created the shared session.
C9_Witness ==
    /\ NumWorkers >= 2
    /\ authCalls = 1
    /\ sessions # << >>
    /\ \A w \in Workers :
          /\ workers[w].cache[WorkerIdentity(w)] # NoSessionObject
          /\ workers[w].cache[WorkerIdentity(w)].token.access_token
                 = sessions[Shared].token.access_token
          /\ workers[w].cache[WorkerIdentity(w)].token = sessions[Shared].token
    /\ now > sessions[Shared].token.expires_at

\* C10. Once the sharing is stopped, explicitly or because the "with"
\* statement is left, normally or by an exception, the sharing object
\* eventually is STOPPED with no thread running, and stays so; and from the
\* stop on no call is made to the auth endpoint (a call made before the stop
\* may return and its token may be written).
C10_StopEndsSharing ==
    /\ SharingOver ~> (chan.state = "STOPPED" /\ chan.task = "none")
    /\ [][SharingOver => authCalls' = authCalls]_vars
    /\ [][(SharingOver /\ chan.state = "STOPPED") =>
             (chan'.state = "STOPPED" /\ chan'.task = "none")]_vars

\* The "with" statement was left by an exception while the sharing thread
\* was busy: told to stop, the thread is about to write the token that its
\* call to the auth endpoint, made before the stop, has yielded.
C10_Witness ==
    /\ chan.scope = "raised"
    /\ chan.stop
    /\ chan.state = "RUNNING" /\ chan.task = "publish"
    /\ chan.written # NoTok
    /\ chan.tok # chan.written
    /\ chan.tok = sessions[Shared].token
    /\ authCalls >= 2

\* C12. A read of the shared memory space by a worker never blocks: a run
\* of remote_function can always be taken.  While nothing was written the
\* read fails with NotFoundError and the cache of the worker stays as it
\* was; in every other case it succeeds and the session the worker caches
\* holds the token written last, whole.
C12_ReadNeverBlocks ==
    /\ [](/\ \A w \in Workers : ENABLED remote_function(w)
          /\ medium = NoMessage <=> chan.written = NoTok)
    /\ [][\A w \in Workers :
            remote_function(w) =>
                IF chan.written = NoTok
                THEN /\ workers'[w].error = "NotFoundError"
                     /\ workers'[w].cache = workers[w].cache
                ELSE /\ workers'[w].error = "none"
                     /\ workers'[w].cache[WorkerIdentity(w)].token = chan.written]_vars

\* A worker that read before the first write has NotFoundError and an
\* empty cache, and a worker that read later holds the token written last.
C12_Witness ==
    \E w1, w2 \in Workers :
        /\ workers[w1].error = "NotFoundError"
        /\ workers[w1].cache[WorkerIdentity(w1)] = NoSessionObject
        /\ workers[w2].error = "none"
        /\ workers[w2].cache[WorkerIdentity(w2)].token = chan.written
        /\ chan.written.access_token = 2
        /\ authCalls = 2
        /\ medium = Serialize(chan.written)

\* C13. A failed call of the sharing thread to the auth endpoint does not
\* end the sharing.  Below the cap the failure is counted, the sharing stays
\* RUNNING, the thread pauses for the backoff and then extracts the token
\* again, and what was written stays in the shared memory space.  A write
\* (a success) sets the count back to 0.  The sharing ends with
\* StaleChannelError, surfaced to its owner, exactly when the count of
\* failures in a row reaches the cap, never before.
C13_FailuresAbsorbedUntilCap ==
    /\ [](/\ chan.failures <= FailureCap
          /\ chan.error = "StaleChannelError" <=> chan.failures >= FailureCap
          /\ chan.error = "StaleChannelError" =>
                chan.state = "STOPPED" /\ chan.task = "none"
          /\ chan.error \in {"none", "StaleChannelError"}
          /\ chan.task = "backoff" =>
                chan.state = "RUNNING" /\ chan.failures > 0
          /\ chan.task = "sleep" => chan.failures = 0)
    /\ [][chan'.failures > chan.failures =>
             /\ chan.task = "auth" /\ chan.state = "RUNNING"
             /\ chan'.failures = chan.failures + 1
             /\ medium' = medium /\ sessions' = sessions
             /\ chan'.written = chan.written
             /\ IF chan.failures + 1 < FailureCap
                THEN /\ chan'.state = "RUNNING" /\ chan'.task = "backoff"
                     /\ chan'.wake = now + Backoff
                     /\ chan'.error = "none"
                ELSE /\ chan'.state = "STOPPED" /\ chan'.task = "none"
                     /\ chan'.error = "StaleChannelError"]_vars
    /\ [][chan'.failures < chan.failures =>
             chan'.failures = 0 /\ medium' = Serialize(chan.tok)]_vars
    /\ [][(chan.task = "backoff" /\ chan'.task # "backoff") =>
             \/ chan'.task = "extract" /\ now >= chan.wake /\ chan'.state = "RUNNING"
             \/ chan.stop /\ chan'.task = "none"]_vars

\* After a write, two calls in a row have failed, the second after the
\* backoff: the sharing has ended with StaleChannelError inside the "with"
\* statement, and what was written is still in the shared memory space.
C13_Witness ==
    /\ chan.error = "StaleChannelError"
    /\ chan.state = "STOPPED" /\ chan.task = "none"
    /\ chan.scope = "inside" /\ ~chan.stop
    /\ chan.failures = FailureCap
    /\ chan.written # NoTok
    /\ medium = Serialize(chan.written)
    /\ authCalls = 1 + FailureCap
    /\ now >= Backoff

\* C19. No read of the shared memory space is torn.  The shared memory
\* space changes only by a write of the sharing thread, and a write puts
\* there, in one step, the serialized form of the whole token the thread
\* extracted from the session; no step of a worker, and no other step,
\* changes it.  So whenever a worker reads, between two writes or while a
\* write is about to happen, what it finds parses to one token that was
\* written whole, and every session the read puts in the cache of the
\* worker holds exactly that token.
C19_NoTornReads ==
    /\ [](medium # NoMessage =>
            /\ Serialize(Deserialize(medium)) = medium
            /\ Deserialize(medium).access_token >= 1
            /\ Deserialize(medium).expires_at >= Deserialize(medium).expires_in)
    /\ [][medium' # medium =>
            /\ chan.task = "publish" /\ chan'.task = "sleep"
            /\ chan.tok = sessions[Shared].token
            /\ medium' = Serialize(chan.tok)
            /\ workers' = workers]_vars
    /\ [][\A w \in Workers :
            workers'[w] # workers[w] =>
                /\ medium' = medium /\ chan' = chan
                /\ \A id \in Identities :
                      workers'[w].cache[id] # workers[w].cache[id] =>
                          /\ workers'[w].cache[id].token = Deserialize(medium)
                          /\ Serialize(workers'[w].cache[id].token) = medium]_vars

\* One worker read the first token before the second was written, the other
\* worker read after that write: each holds a whole token, the first the
\* one issued at time 0, the second the one in the shared memory space.
C19_Witness ==
    \E w1, w2 \in Workers :
        /\ workers[w1].error = "none" /\ workers[w2].error = "none"
        /\ workers[w1].cache[WorkerIdentity(w1)].token.access_token = 1
        /\ workers[w1].cache[WorkerIdentity(w1)].token
               = IssueToken(1, workers[w1].cache[WorkerIdentity(w1)].token.expires_in, 0)
        /\ workers[w2].cache[WorkerIdentity(w2)].token.access_token = 2
        /\ workers[w2].cache[WorkerIdentity(w2)].token = sessions[Shared].token
        /\ workers[w2].cache[WorkerIdentity(w2)].token.expires_at
               # workers[w1].cache[WorkerIdentity(w1)].token.expires_at
        /\ Serialize(workers[w2].cache[WorkerIdentity(w2)].token) = medium

\* The sharing has run and is STOPPED: its thread has ended.
Stopped == chan.state = "STOPPED" /\ chan.scope # "before"

\* C20. Stopping the sharing leaves the shared memory space as it is.  The
\* step that tells the thread to stop and the step that ends it do not
\* change what was written, and what was written is never removed.  Once
\* the sharing is STOPPED the shared memory space never changes again and
\* no call is made to the auth endpoint, so the token there is not
\* refreshed; a read by a worker still succeeds, without NotFoundError, and
\* yields the token written last, expired or not.  Between the stop being
\* told and the thread ending, the only change is the write that was under
\* way when the stop was told.
C20_StopLeavesMedium ==
    /\ [][medium # NoMessage => medium' # NoMessage]_vars
    /\ [][(chan'.stop # chan.stop \/ chan'.state # chan.state \/ chan'.scope # chan.scope)
             => medium' = medium]_vars
    /\ [][Stopped =>
             /\ medium' = medium
             /\ authCalls' = authCalls
             /\ chan'.written = chan.written
             /\ Stopped']_vars
    /\ [][\A w \in Workers :
            (Stopped /\ medium # NoMessage /\ workers'[w] # workers[w]) =>
                /\ workers'[w].error = "none"
                /\ workers'[w].cache[WorkerIdentity(w)].token = Deserialize(medium)]_vars
    /\ [][(SharingOver /\ medium' # medium) =>
             (chan.task = "publish" /\ medium' = Serialize(chan.tok))]_vars

\* The sharing was stopped and its thread has ended; the token written last
\* is still in the shared memory space and has expired; a worker that had
\* NotFoundError before the first write still has an empty cache, and
\* another holds the expired token.
C20_Witness ==
    /\ Stopped /\ SharingOver /\ chan.error = "none"
    /\ medium # NoMessage
    /\ medium = Serialize(chan.written)
    /\ now >= Deserialize(medium).expires_at
    /\ \E w1, w2 \in Workers :
          /\ workers[w1].error = "NotFoundError"
          /\ workers[w2].error = "none"
          /\ workers[w2].cache[WorkerIdentity(w2)].token = chan.written

\* ------------------------------------------------------------ SpecTimely
\* The sharing is running, every authentication since the latest write has
\* succeeded, and a token was written.
Sharing == chan.state = "RUNNING" /\ ~chan.stop /\ chan.failures = 0
           /\ medium # NoMessage

C21_FailureChangesNothing ==
    /\ [](\A id \in Identities : authing[id] <= 1)
    /\ [][\A id \in Identities, o \in Errors, ei \in ShareExpiresIns :
            get_session_return(id, o, ei) =>
                /\ cache' = cache /\ cache[id] = NoSession
                /\ sessions' = sessions /\ refreshing' = refreshing
                /\ cached' = cached /\ now' = now
                /\ authCalls' = authCalls
                /\ authing[id] = 1 /\ authing'[id] = 0 /\ waiting'[id] = 0
                /\ Outstanding' = Outstanding - 1
                /\ ret' = RetError("get_session", 1 + waiting[id], NoSession, o)
                /\ ret'.kind = o]_vars
    /\ [][\A s \in SessionIds, o \in Errors, ei \in ShareExpiresIns :
            token_return(s, o, ei) =>
                /\ sessions' = sessions
                /\ sessions'[s].token = sessions[s].token
                /\ cache' = cache /\ cached' = cached /\ now' = now
                /\ authCalls' = authCalls
                /\ refreshing'[s] = refreshing[s] - 1
                /\ Outstanding' = Outstanding - 1
                /\ ret' = RetError("token", 1, s, o)
                /\ ret'.kind = o]_vars
    /\ [][Outstanding' < Outstanding =>
            /\ authCalls' = authCalls
            /\ Outstanding' = Outstanding - 1
            /\ \/ ret'.kind \in {"session", "token"} /\ sessions' # sessions
               \/ ret'.kind \in Errors /\ sessions' = sessions /\ cache' = cache]_vars
    /\ [][authCalls' > authCalls =>
            /\ authCalls' = authCalls + 1
            /\ Outstanding' = Outstanding + 1
            /\ ret' = ret]_vars

\* The first get_session call failed and left the cache empty; the second
\* made the session with token 2 and cached it; the refresh session.token
\* then started, the third call to the auth endpoint, has failed: the
\* caller has the error, the session still holds token 2, which is close to
\* expiry, and no call is in flight.
C21_Witness ==
    /\ authCalls = 3
    /\ Outstanding = 0
    /\ Len(sessions) = 1
    /\ cache["A"] = 1 /\ cache["B"] = NoSession
    /\ sessions[1].token.access_token = 2
    /\ MustRefresh(1)
    /\ ret.op = "token" /\ ret.of = 1 /\ ret.kind \in Errors

====
